---------------------------- MODULE Spec2Model ----------------------------
(***************************************************************************)
(* A model of the boolean retrieval program: the inverted index builder    *)
(* (inverted_index.py) and the RPN query evaluator with its three merge    *)
(* algorithms (boolean_retrieval.py).                                      *)
(*                                                                         *)
(* Three specifications share the module:                                  *)
(*   MergeSpec  and_query / or_query / and_not_query applied to two lists  *)
(*   Spec       BooleanRetrieval.evaluate scanning the tokens of a query   *)
(*   BuildSpec  InvertedIndex.process_file reading files line by line      *)
(*   GoodBuildSpec  the builder reading well-formed files only             *)
(*   RebuildSpec    a build, Document.ID = 0, a second build of the same   *)
(*                  input                                                  *)
(*   BatchSpec      the batch loop of boolean_retrieval.py's __main__      *)
(*   LaterBuildSpec a builder created after other builders of the process  *)
(***************************************************************************)
EXTENDS Integers, Sequences, FiniteSets, TLC

VARIABLES
    \* ---- merge algorithms (MergeSpec)
    term_1_list,     \* first argument of the merges
    term_2_list,     \* second argument of the merges
    ran,             \* the merges that have been called on the two lists
    and_res,         \* what and_query returned
    or_res,          \* what or_query returned
    not_res,         \* what and_not_query returned
    \* ---- evaluator (Spec)
    inverted_index,  \* the dictionary term -> posting list handed to evaluate
    tokens,          \* self.booleanquery.split()
    pos,             \* number of tokens the for loop has consumed
    stack,           \* the operand stack
    status,          \* "running" | "returned" | "raised"
    result,          \* the value evaluate returned
    error,           \* the ValueError evaluate raised
    lookups,         \* the terms looked up in the index so far, in order
    last_call,       \* the last merge invocation: function and arguments
    \* ---- index builder (BuildSpec)
    term_docs_dict,  \* InvertedIndex.term_docs_dict
    ID,              \* Document.ID, the class-level counter
    file_counter,    \* InvertedIndex.file_counter
    fstate,          \* "idle" | "open": whether process_file is reading a file
    in_doc,          \* process_file's local in_doc
    in_text,         \* process_file's local in_text
    new_doc,         \* process_file's local new_doc
    lines_read,      \* number of lines read in the whole build
    parse_errors,    \* number of "Couldn't parse file" messages printed
    token_count,     \* <<word, doc_idx>> -> 1 or 2: how often (2: twice or
                     \* more) process_text_line met the word for the document
    file_postings,   \* number of postings the index holds that come from
                     \* the file process_file was last called on
    docs_built,      \* number of Documents constructed for this builder
    file_docs,       \* number of Documents constructed from the file
                     \* process_file was last called on
    \* ---- the input seen as a sequence of documents (GoodBuildSpec)
    grammar,         \* position in the document grammar, the documents and
                     \* the <<term, document number>> pairs of the input
    \* ---- two builds of one input (RebuildSpec)
    input_log,       \* the files and lines the first build read, in order
    first_dict,      \* term_docs_dict of the first build when it ended
    run,             \* 1: first build, 2: second build, 3: both done
    replay_pos,      \* number of input_log entries the second build consumed
    \* ---- batch run (BatchSpec)
    n_queries,       \* number of queries read from the queries file
    qi,              \* number of queries the loop has gone through
    results,         \* the output lines collected so far
    query_errors     \* number of "ERROR evaluating query" messages printed

mergeVars == <<term_1_list, term_2_list, ran, and_res, or_res, not_res>>
evalVars  == <<inverted_index, tokens, pos, stack, status, result, error,
               lookups, last_call>>
buildVars == <<term_docs_dict, ID, file_counter, fstate, in_doc, in_text,
               new_doc, lines_read, parse_errors, token_count,
               file_postings, docs_built, file_docs>>
goodVars == <<grammar>>
rebuildVars == <<input_log, first_dict, run, replay_pos>>
batchVars == <<n_queries, qi, results, query_errors>>
harnessVars == <<goodVars, rebuildVars, batchVars>>
vars == <<mergeVars, evalVars, buildVars, harnessVars>>

----------------------------------------------------------------------------
(* Bounds of the model.                                                    *)

\* documents 0 .. MergeDocs-1 may occur in the two lists given to a merge
MergeDocs == 5
\* documents 0 .. QueryDocs-1 may occur in the index given to evaluate
QueryDocs == 2
\* a query has at most MaxTokens tokens
MaxTokens == 5
\* the builder reads at most MaxLines lines in all
MaxLines == 8
\* the builder opens at most MaxFiles files
MaxFiles == 2
\* the builder reads at most MaxGoodLines lines of well-formed input
MaxGoodLines == 12
\* the first of two builds reads at most MaxReplayLines lines
MaxReplayLines == 4
\* the first of two builds opens at most MaxReplayFiles files
MaxReplayFiles == 1
\* the queries file holds at most MaxQueries queries
MaxQueries == 2
\* a query of the queries file has at most MaxBatchTokens tokens
MaxBatchTokens == 3
\* builders that ran earlier in the process constructed at most
\* MaxEarlierDocs Documents
MaxEarlierDocs == 1

----------------------------------------------------------------------------
(* Document and PostingList (inverted_index.py).                           *)

\* Python's None: the pending document before a <DOCNO> line, and what
\* get_last_doc returns for an empty list.
None == [doc_id |-> "None", doc_idx |-> -1]

\* Document.__init__: the raw name and the current value of the counter.
Document(raw_id, idx) == [doc_id |-> raw_id, doc_idx |-> idx]

\* Document.__eq__ and the != derived from it: two Documents compare by
\* doc_idx alone; a Document and None are never equal (NotImplemented on
\* both sides falls back to identity); None equals None.
DocNe(a, b) ==
    IF a # None /\ b # None THEN a.doc_idx # b.doc_idx ELSE a # b

\* A list value.  A PostingList carries the attribute freq; a plain Python
\* list (what the merges return, and the [] of an unknown term) has none.
NoFreq == -1
PlainList(docs) == [docs |-> docs, freq |-> NoFreq]

\* PostingList.__init__: freq = len(self).
PostingList(docs) == [docs |-> docs, freq |-> Len(docs)]

\* The append of list, not overridden: the element goes to the end and
\* freq stays as it was.
PLAppendNoCount(pl, item) == [docs |-> Append(pl.docs, item), freq |-> pl.freq]

\* Appending at the front of the list instead of the end.
PLAppendFront(pl, item) ==
    [docs |-> <<item>> \o pl.docs, freq |-> pl.freq + 1]

\* PostingList.append: the element goes to the end and freq grows by one.
PLAppend(pl, item) == [docs |-> Append(pl.docs, item), freq |-> pl.freq + 1]

\* Reading the first element of the list instead of the last.
get_first_doc(pl) == IF pl.freq > 0 THEN pl.docs[1] ELSE None

\* PostingList.get_last_doc: self[-1] if freq > 0, else None.
get_last_doc(pl) == IF pl.freq > 0 THEN pl.docs[Len(pl.docs)] ELSE None

----------------------------------------------------------------------------
(* The merge algorithms (boolean_retrieval.py).                            *)

\* BooleanRetrieval._get_list_size: freq when the list has it, else len().
get_list_size(lst) == IF lst.freq # NoFreq THEN lst.freq ELSE Len(lst.docs)

\* The while loop of and_query; p1, p2 are the 0-based pointers of the code.
RECURSIVE and_loop(_, _, _, _, _, _, _)
and_loop(l1, l2, p1, p2, size1, size2, result_list) ==
    IF p1 < size1 /\ p2 < size2
    THEN IF l1[p1 + 1].doc_idx = l2[p2 + 1].doc_idx
         THEN and_loop(l1, l2, p1 + 1, p2 + 1, size1, size2,
                       Append(result_list, l1[p1 + 1]))
         ELSE IF l1[p1 + 1].doc_idx < l2[p2 + 1].doc_idx
         THEN and_loop(l1, l2, p1 + 1, p2, size1, size2, result_list)
         ELSE and_loop(l1, l2, p1, p2 + 1, size1, size2, result_list)
    ELSE result_list

\* and_query with the first pointer starting one element late.
and_query_skip(a, b) ==
    PlainList(and_loop(a.docs, b.docs, 1, 0,
                       get_list_size(a), get_list_size(b), <<>>))

\* and_query whose loop stops one element early on the first list.
and_query_short(a, b) ==
    PlainList(and_loop(a.docs, b.docs, 0, 0,
                       get_list_size(a) - 1, get_list_size(b), <<>>))

\* BooleanRetrieval.and_query
and_query(a, b) ==
    PlainList(and_loop(a.docs, b.docs, 0, 0,
                       get_list_size(a), get_list_size(b), <<>>))

\* The three while loops of or_query: the merge, then the two tails.
RECURSIVE or_loop(_, _, _, _, _, _, _)
or_loop(l1, l2, p1, p2, size1, size2, result_list) ==
    IF p1 < size1 /\ p2 < size2
    THEN IF l1[p1 + 1].doc_idx < l2[p2 + 1].doc_idx
         THEN or_loop(l1, l2, p1 + 1, p2, size1, size2,
                      Append(result_list, l1[p1 + 1]))
         ELSE IF l1[p1 + 1].doc_idx > l2[p2 + 1].doc_idx
         THEN or_loop(l1, l2, p1, p2 + 1, size1, size2,
                      Append(result_list, l2[p2 + 1]))
         ELSE or_loop(l1, l2, p1 + 1, p2 + 1, size1, size2,
                      Append(result_list, l1[p1 + 1]))
    ELSE IF p1 < size1
    THEN or_loop(l1, l2, p1 + 1, p2, size1, size2,
                 Append(result_list, l1[p1 + 1]))
    ELSE IF p2 < size2
    THEN or_loop(l1, l2, p1, p2 + 1, size1, size2,
                 Append(result_list, l2[p2 + 1]))
    ELSE result_list

\* or_query without the tie branch's second advance: a tie emits the
\* element and advances the first pointer only.
RECURSIVE or_loop_tie(_, _, _, _, _, _, _)
or_loop_tie(l1, l2, p1, p2, size1, size2, result_list) ==
    IF p1 < size1 /\ p2 < size2
    THEN IF l1[p1 + 1].doc_idx <= l2[p2 + 1].doc_idx
         THEN or_loop_tie(l1, l2, p1 + 1, p2, size1, size2,
                          Append(result_list, l1[p1 + 1]))
         ELSE or_loop_tie(l1, l2, p1, p2 + 1, size1, size2,
                          Append(result_list, l2[p2 + 1]))
    ELSE IF p1 < size1
    THEN or_loop_tie(l1, l2, p1 + 1, p2, size1, size2,
                     Append(result_list, l1[p1 + 1]))
    ELSE IF p2 < size2
    THEN or_loop_tie(l1, l2, p1, p2 + 1, size1, size2,
                     Append(result_list, l2[p2 + 1]))
    ELSE result_list

or_query_tie(a, b) ==
    PlainList(or_loop_tie(a.docs, b.docs, 0, 0,
                          get_list_size(a), get_list_size(b), <<>>))

\* BooleanRetrieval.or_query
or_query(a, b) ==
    PlainList(or_loop(a.docs, b.docs, 0, 0,
                      get_list_size(a), get_list_size(b), <<>>))

\* The two while loops of and_not_query: the merge, then the tail of l1.
RECURSIVE and_not_loop(_, _, _, _, _, _, _)
and_not_loop(l1, l2, p1, p2, size1, size2, result_list) ==
    IF p1 < size1 /\ p2 < size2
    THEN IF l1[p1 + 1].doc_idx < l2[p2 + 1].doc_idx
         THEN and_not_loop(l1, l2, p1 + 1, p2, size1, size2,
                           Append(result_list, l1[p1 + 1]))
         ELSE IF l1[p1 + 1].doc_idx = l2[p2 + 1].doc_idx
         THEN and_not_loop(l1, l2, p1 + 1, p2 + 1, size1, size2, result_list)
         ELSE and_not_loop(l1, l2, p1, p2 + 1, size1, size2, result_list)
    ELSE IF p1 < size1
    THEN and_not_loop(l1, l2, p1 + 1, p2, size1, size2,
                      Append(result_list, l1[p1 + 1]))
    ELSE result_list

\* and_not_query without the final loop that appends the tail of l1.
RECURSIVE and_not_loop_notail(_, _, _, _, _, _, _)
and_not_loop_notail(l1, l2, p1, p2, size1, size2, result_list) ==
    IF p1 < size1 /\ p2 < size2
    THEN IF l1[p1 + 1].doc_idx < l2[p2 + 1].doc_idx
         THEN and_not_loop_notail(l1, l2, p1 + 1, p2, size1, size2,
                                  Append(result_list, l1[p1 + 1]))
         ELSE IF l1[p1 + 1].doc_idx = l2[p2 + 1].doc_idx
         THEN and_not_loop_notail(l1, l2, p1 + 1, p2 + 1, size1, size2,
                                  result_list)
         ELSE and_not_loop_notail(l1, l2, p1, p2 + 1, size1, size2,
                                  result_list)
    ELSE result_list

and_not_query_notail(a, b) ==
    PlainList(and_not_loop_notail(a.docs, b.docs, 0, 0,
                                  get_list_size(a), get_list_size(b), <<>>))

\* and_not_query with the roles of the two lists exchanged.
and_not_query_rev(a, b) ==
    PlainList(and_not_loop(b.docs, a.docs, 0, 0,
                           get_list_size(b), get_list_size(a), <<>>))

\* BooleanRetrieval.and_not_query
and_not_query(a, b) ==
    PlainList(and_not_loop(a.docs, b.docs, 0, 0,
                           get_list_size(a), get_list_size(b), <<>>))

----------------------------------------------------------------------------
(* The operator dispatch of evaluate (boolean_retrieval.py).               *)

\* One merge invocation: the function, its two arguments in call order,
\* and what it returned.
Call(fn, arg1, arg2, res) ==
    [fn |-> fn, arg1 |-> arg1, arg2 |-> arg2, result |-> res]

\* The dispatch without the size comparison: AND always in push order.
\* (Used to show which properties rest on the comparison.)
apply_operator_noswap(token, operand1, operand2) ==
    IF token = "AND"
    THEN Call("and_query", operand1, operand2, and_query(operand1, operand2))
    ELSE IF token = "OR"
    THEN Call("or_query", operand1, operand2, or_query(operand1, operand2))
    ELSE Call("and_not_query", operand1, operand2,
              and_not_query(operand1, operand2))

\* The dispatch with NOT's operands exchanged: operand2 as the base.
apply_operator_notrev(token, operand1, operand2) ==
    IF token = "AND"
    THEN IF get_list_size(operand2) < get_list_size(operand1)
         THEN Call("and_query", operand2, operand1,
                   and_query(operand2, operand1))
         ELSE Call("and_query", operand1, operand2,
                   and_query(operand1, operand2))
    ELSE IF token = "OR"
    THEN Call("or_query", operand1, operand2, or_query(operand1, operand2))
    ELSE Call("and_not_query", operand2, operand1,
              and_not_query(operand2, operand1))

\* evaluate, "Apply the operation": AND passes the shorter list first
\* (operand2 first only when size2 < size1), OR and NOT pass operand1,
\* operand2 in push order.
apply_operator(token, operand1, operand2) ==
    IF token = "AND"
    THEN IF get_list_size(operand2) < get_list_size(operand1)
         THEN Call("and_query", operand2, operand1,
                   and_query(operand2, operand1))
         ELSE Call("and_query", operand1, operand2,
                   and_query(operand1, operand2))
    ELSE IF token = "OR"
    THEN Call("or_query", operand1, operand2, or_query(operand1, operand2))
    ELSE Call("and_not_query", operand1, operand2,
              and_not_query(operand1, operand2))

----------------------------------------------------------------------------
(* Inputs: the documents of a collection and the sorted lists over them.   *)

\* The document with sequence index i, as Document("AP-00<i+1>") built it
\* when the counter stood at i (test_query_functions builds AP-001.. so).
Doc(i) == Document("AP-00" \o ToString(i + 1), i)

Min(S) == CHOOSE x \in S : \A y \in S : x <= y

\* The documents with the indices of S, ascending by index.
RECURSIVE SortedDocs(_)
SortedDocs(S) ==
    IF S = {} THEN <<>> ELSE <<Doc(Min(S))>> \o SortedDocs(S \ {Min(S)})

\* The strictly ascending document sequences over documents 0 .. n-1.
AscendingSeqs(n) == {SortedDocs(S) : S \in SUBSET (0 .. n - 1)}

\* A merge argument is a PostingList of the index or a plain list that an
\* earlier merge returned.
ListValues(n) ==
    {PostingList(d) : d \in AscendingSeqs(n)} \cup
    {PlainList(d) : d \in AscendingSeqs(n)}

----------------------------------------------------------------------------
(* States in which a subsystem has not been started.                       *)

EmptyDict == [t \in {} |-> PostingList(<<>>)]
NoCall == Call("none", PlainList(<<>>), PlainList(<<>>), PlainList(<<>>))
NoError == [msg |-> "none", op |-> "none"]

MergeParked ==
    /\ term_1_list = PlainList(<<>>)
    /\ term_2_list = PlainList(<<>>)
    /\ ran = {}
    /\ and_res = PlainList(<<>>)
    /\ or_res = PlainList(<<>>)
    /\ not_res = PlainList(<<>>)

EvalParked ==
    /\ inverted_index = EmptyDict
    /\ tokens = <<>>
    /\ pos = 0
    /\ stack = <<>>
    /\ status = "running"
    /\ result = PlainList(<<>>)
    /\ error = NoError
    /\ lookups = <<>>
    /\ last_call = NoCall

BuildParked ==
    /\ term_docs_dict = EmptyDict
    /\ ID = 0
    /\ file_counter = 0
    /\ fstate = "idle"
    /\ in_doc = FALSE
    /\ in_text = FALSE
    /\ new_doc = None
    /\ lines_read = 0
    /\ parse_errors = 0
    /\ token_count = <<>>
    /\ file_postings = 0
    /\ docs_built = 0
    /\ file_docs = 0

\* Before any line: outside a document, no document and no term seen.
GrammarStart == [ok |-> TRUE, state |-> "Outside", docs |-> <<>>, terms |-> {}]

HarnessParked ==
    /\ grammar = GrammarStart
    /\ input_log = <<>>
    /\ first_dict = EmptyDict
    /\ run = 1
    /\ replay_pos = 0
    /\ n_queries = 0
    /\ qi = 0
    /\ results = <<>>
    /\ query_errors = 0

----------------------------------------------------------------------------
(* MergeSpec: the three merges applied to two sorted lists.                *)

MergeInit ==
    /\ term_1_list \in ListValues(MergeDocs)
    /\ term_2_list \in ListValues(MergeDocs)
    /\ ran = {}
    /\ and_res = PlainList(<<>>)
    /\ or_res = PlainList(<<>>)
    /\ not_res = PlainList(<<>>)
    /\ EvalParked
    /\ BuildParked
    /\ HarnessParked

CallAnd ==
    /\ "AND" \notin ran
    /\ and_res' = and_query(term_1_list, term_2_list)
    /\ ran' = ran \cup {"AND"}
    /\ UNCHANGED <<term_1_list, term_2_list, or_res, not_res>>
    /\ UNCHANGED <<evalVars, buildVars, harnessVars>>

CallOr ==
    /\ "OR" \notin ran
    /\ or_res' = or_query(term_1_list, term_2_list)
    /\ ran' = ran \cup {"OR"}
    /\ UNCHANGED <<term_1_list, term_2_list, and_res, not_res>>
    /\ UNCHANGED <<evalVars, buildVars, harnessVars>>

CallAndNot ==
    /\ "NOT" \notin ran
    /\ not_res' = and_not_query(term_1_list, term_2_list)
    /\ ran' = ran \cup {"NOT"}
    /\ UNCHANGED <<term_1_list, term_2_list, and_res, or_res>>
    /\ UNCHANGED <<evalVars, buildVars, harnessVars>>

MergeNext == CallAnd \/ CallOr \/ CallAndNot

MergeSpec == MergeInit /\ [][MergeNext]_vars

----------------------------------------------------------------------------
(* Spec: BooleanRetrieval.evaluate, one action per iteration of the token  *)
(* loop and one for the check after the loop.                              *)

\* evaluate: operators = {'AND', 'OR', 'NOT'}
operators == {"AND", "OR", "NOT"}

\* The term tokens of the queries; a term that is no key of the index is
\* an unknown term.
Terms == {"T1", "T2"}

\* The whitespace-separated tokens a query may hold.
Tokens == Terms \cup operators

\* The queries, as booleanquery.split() lists them: up to MaxTokens tokens.
Queries == UNION {[1 .. n -> Tokens] : n \in 0 .. MaxTokens}

\* The indexes: some of the terms are keys, each with a PostingList that is
\* strictly ascending by doc_idx and whose freq is its length.
Indexes ==
    UNION {[K -> {PostingList(d) : d \in AscendingSeqs(QueryDocs)}] :
               K \in SUBSET Terms}

\* inverted_index.get(token, []): the posting list of a key, a new empty
\* plain list otherwise; the dictionary is not changed.
dict_get(index, token) ==
    IF token \in DOMAIN index THEN index[token] ELSE PlainList(<<>>)

\* The dictionary after subscripting it, inverted_index[token]: a
\* defaultdict(PostingList) stores an empty PostingList under a missing key.
index_after_subscript(index, token) ==
    IF token \in DOMAIN index THEN index
    ELSE [t \in DOMAIN index \cup {token} |->
              IF t = token THEN PostingList(<<>>) ELSE index[t]]

\* The dictionary after inverted_index.get(token, []): get never calls
\* __missing__, so no key is stored, whatever the kind of dictionary.
index_after_get(index, token) == index

\* The final check accepting any non-empty stack.
stack_has_result_lax(stk) == Len(stk) >= 1

\* evaluate, after the loop: len(stack) != 1 raises, else stack[0] returns.
stack_has_result(stk) == Len(stk) = 1

EvalInit ==
    /\ inverted_index \in Indexes
    /\ tokens \in Queries
    /\ pos = 0
    /\ stack = <<>>
    /\ status = "running"
    /\ result = PlainList(<<>>)
    /\ error = NoError
    /\ lookups = <<>>
    /\ last_call = NoCall
    /\ MergeParked
    /\ BuildParked
    /\ HarnessParked

\* The else branch written as a subscript, inverted_index[token], on a
\* plain dictionary: a term that is not a key raises KeyError.
EvalTermKeyError ==
    /\ status = "running"
    /\ pos < Len(tokens)
    /\ tokens[pos + 1] \notin operators
    /\ IF tokens[pos + 1] \in DOMAIN inverted_index
       THEN /\ stack' = Append(stack, inverted_index[tokens[pos + 1]])
            /\ UNCHANGED <<status, error>>
       ELSE /\ status' = "raised"
            /\ error' = [msg |-> "KeyError", op |-> tokens[pos + 1]]
            /\ UNCHANGED stack
    /\ lookups' = Append(lookups, tokens[pos + 1])
    /\ pos' = pos + 1
    /\ UNCHANGED <<inverted_index, tokens, result, last_call>>
    /\ UNCHANGED <<mergeVars, buildVars, harnessVars>>

\* The else branch of the loop body: the token is a term.
EvalTerm ==
    /\ status = "running"
    /\ pos < Len(tokens)
    /\ tokens[pos + 1] \notin operators
    /\ stack' = Append(stack, dict_get(inverted_index, tokens[pos + 1]))
    /\ inverted_index' = index_after_get(inverted_index, tokens[pos + 1])
    /\ lookups' = Append(lookups, tokens[pos + 1])
    /\ pos' = pos + 1
    /\ UNCHANGED <<tokens, status, result, error, last_call>>
    /\ UNCHANGED <<mergeVars, buildVars, harnessVars>>

\* The operator branch with at least two operands: operand2 is popped
\* first, operand1 second, and the result is pushed.
EvalOperator ==
    /\ status = "running"
    /\ pos < Len(tokens)
    /\ tokens[pos + 1] \in operators
    /\ Len(stack) >= 2
    /\ LET operand2 == stack[Len(stack)]
           operand1 == stack[Len(stack) - 1]
           call == apply_operator(tokens[pos + 1], operand1, operand2)
       IN  /\ stack' = Append(SubSeq(stack, 1, Len(stack) - 2), call.result)
           /\ last_call' = call
    /\ pos' = pos + 1
    /\ UNCHANGED <<inverted_index, tokens, status, result, error, lookups>>
    /\ UNCHANGED <<mergeVars, buildVars, harnessVars>>

\* An operator branch that drops the operator instead of raising.
EvalUnderflowSkip ==
    /\ status = "running"
    /\ pos < Len(tokens)
    /\ tokens[pos + 1] \in operators
    /\ Len(stack) < 2
    /\ pos' = pos + 1
    /\ UNCHANGED <<inverted_index, tokens, stack, status, result, error,
                   lookups, last_call>>
    /\ UNCHANGED <<mergeVars, buildVars, harnessVars>>

\* The operator branch with fewer than two operands: ValueError naming the
\* operator leaves the loop and evaluate.
EvalUnderflow ==
    /\ status = "running"
    /\ pos < Len(tokens)
    /\ tokens[pos + 1] \in operators
    /\ Len(stack) < 2
    /\ status' = "raised"
    /\ error' = [msg |-> "not enough operands for operator",
                 op |-> tokens[pos + 1]]
    /\ UNCHANGED <<inverted_index, tokens, pos, stack, result, lookups,
                   last_call>>
    /\ UNCHANGED <<mergeVars, buildVars, harnessVars>>

\* After the loop, exactly one element: return stack[0].
EvalReturn ==
    /\ status = "running"
    /\ pos = Len(tokens)
    /\ stack_has_result(stack)
    /\ status' = "returned"
    /\ result' = stack[1]
    /\ UNCHANGED <<inverted_index, tokens, pos, stack, error, lookups,
                   last_call>>
    /\ UNCHANGED <<mergeVars, buildVars, harnessVars>>

\* After the loop, any other stack: ValueError.
EvalBadStack ==
    /\ status = "running"
    /\ pos = Len(tokens)
    /\ ~stack_has_result(stack)
    /\ status' = "raised"
    /\ error' = [msg |-> "stack does not contain exactly one result",
                 op |-> "none"]
    /\ UNCHANGED <<inverted_index, tokens, pos, stack, result, lookups,
                   last_call>>
    /\ UNCHANGED <<mergeVars, buildVars, harnessVars>>

Next ==
    \/ EvalTerm
    \/ EvalOperator
    \/ EvalUnderflow
    \/ EvalReturn
    \/ EvalBadStack

Spec == EvalInit /\ [][Next]_vars

----------------------------------------------------------------------------
(* BuildSpec: InvertedIndex.populate and process_file (inverted_index.py). *)
(* A line is the list of its whitespace-separated pieces after strip();    *)
(* a piece is a tag or a word.                                             *)

START_TEXT_TAG == "<TEXT>"
END_TEXT_TAG == "</TEXT>"
START_DOC_TAG == "<DOC>"
END_DOC_TAG == "</DOC>"
START_DOCNO_TAG == "<DOCNO>"
END_DOCNO_TAG == "</DOCNO>"

\* The pieces that hold '<' and '>'.
Tags == {START_TEXT_TAG, END_TEXT_TAG, START_DOC_TAG, END_DOC_TAG,
         START_DOCNO_TAG, END_DOCNO_TAG}

\* The raw document names of the document-number lines.
DocNames == {"AP-1"}

\* The lines of the input files: the tag lines, document-number lines,
\* text lines with repeated words, a blank line, and a text line that
\* holds a document-number element.
Lines ==
    {<<START_DOC_TAG>>, <<END_DOC_TAG>>, <<START_TEXT_TAG>>,
     <<END_TEXT_TAG>>, <<>>, <<"a">>, <<"a", "b", "a">>}
    \cup {<<START_DOCNO_TAG, n, END_DOCNO_TAG>> : n \in DocNames}
    \cup {<<"b", START_DOCNO_TAG, "AP-2", END_DOCNO_TAG>>}

\* line.startswith(tag), for a tag followed by whitespace or the line end.
startswith(line, tag) == Len(line) > 0 /\ line[1] = tag

\* tag in line
contains(line, tag) == \E i \in DOMAIN line : line[i] = tag

\* ' '.join(pieces)
RECURSIVE Join(_)
Join(pieces) ==
    IF pieces = <<>> THEN ""
    ELSE IF Len(pieces) = 1 THEN pieces[1]
    ELSE pieces[1] \o " " \o Join(Tail(pieces))

\* extract_doc_name: what stands after the first '>' of the line (the end
\* of its first tag) and before the next '<' (the start of the next tag),
\* stripped.  Lines of the model close every element, so find() finds '<'.
extract_doc_name(line) ==
    LET start == CHOOSE i \in DOMAIN line :
                     line[i] \in Tags /\ \A j \in 1 .. i - 1 : line[j] \notin Tags
        end == CHOOSE i \in DOMAIN line :
                   /\ i > start /\ line[i] \in Tags
                   /\ \A j \in start + 1 .. i - 1 : line[j] \notin Tags
    IN  Join(SubSeq(line, start + 1, end - 1))

\* term_docs_dict[word] of the defaultdict: a missing key is created with
\* an empty PostingList.
dict_default(dict, word) ==
    IF word \in DOMAIN dict THEN dict
    ELSE [t \in DOMAIN dict \cup {word} |->
             IF t = word THEN PostingList(<<>>) ELSE dict[t]]

\* The word loop storing a new list that holds only the document instead
\* of appending to the list of the word.
process_word_overwrite(dict, word, document) ==
    LET d == dict_default(dict, word)
        posting_list == d[word]
        last_doc == get_last_doc(posting_list)
    IN  IF DocNe(last_doc, document)
        THEN [d EXCEPT ![word] = PostingList(<<document>>)]
        ELSE d

\* One iteration of the word loop of process_text_line: look the word up
\* (creating its key), and append the document unless it is the last entry.
process_word(dict, word, document) ==
    LET d == dict_default(dict, word)
        posting_list == d[word]
        last_doc == get_last_doc(posting_list)
    IN  IF DocNe(last_doc, document)
        THEN [d EXCEPT ![word] = PLAppend(posting_list, document)]
        ELSE d

\* A variant of process_text_line that indexes only the first word.
process_text_line_first(dict, words, document) ==
    IF words = <<>> THEN dict ELSE process_word(dict, words[1], document)

\* process_text_line: the word loop over text_line.split().
RECURSIVE process_text_line(_, _, _)
process_text_line(dict, words, document) ==
    IF words = <<>> THEN dict
    ELSE process_text_line(process_word(dict, words[1], document),
                           Tail(words), document)

\* The record of the words process_text_line met for the document.
RECURSIVE count_tokens(_, _, _)
count_tokens(count, words, document) ==
    IF words = <<>> THEN count
    ELSE LET key == <<words[1], document.doc_idx>>
             now == IF key \in DOMAIN count THEN 2 ELSE 1
         IN  count_tokens([k \in DOMAIN count \cup {key} |->
                              IF k = key THEN now ELSE count[k]],
                          Tail(words), document)

\* The number of postings the index holds, over all its terms.
RECURSIVE count_keys(_, _)
count_keys(dict, keys) ==
    IF keys = {} THEN 0
    ELSE LET k == CHOOSE x \in keys : TRUE
         IN  Len(dict[k].docs) + count_keys(dict, keys \ {k})

count_postings(dict) == count_keys(dict, DOMAIN dict)

BuildInit ==
    /\ BuildParked
    /\ MergeParked
    /\ EvalParked
    /\ HarnessParked

\* The parser state kept between the files (in attributes of the builder
\* instead of locals of process_file): the next file goes on where the
\* previous one ended.
OpenFileKeepState ==
    /\ fstate = "idle"
    /\ file_counter < MaxFiles
    /\ file_counter' = file_counter + 1
    /\ fstate' = "open"
    /\ file_postings' = 0
    /\ file_docs' = 0
    /\ UNCHANGED <<term_docs_dict, ID, lines_read, parse_errors, token_count,
                   docs_built, in_doc, in_text, new_doc>>
    /\ UNCHANGED <<mergeVars, evalVars>>

\* populate: the next file is counted and process_file opens it; the
\* parser starts with in_doc = in_text = False and no document.
OpenFile ==
    /\ fstate = "idle"
    /\ file_counter < MaxFiles
    /\ file_counter' = file_counter + 1
    /\ fstate' = "open"
    /\ in_doc' = FALSE
    /\ in_text' = FALSE
    /\ new_doc' = None
    /\ file_postings' = 0
    /\ file_docs' = 0
    /\ UNCHANGED <<term_docs_dict, ID, lines_read, parse_errors, token_count,
                   docs_built>>
    /\ UNCHANGED <<mergeVars, evalVars>>

\* populate: the next file is counted, open() raises OSError, the except
\* clause prints and process_file returns.
OpenFails ==
    /\ fstate = "idle"
    /\ file_counter < MaxFiles
    /\ file_counter' = file_counter + 1
    /\ parse_errors' = parse_errors + 1
    /\ file_postings' = 0
    /\ file_docs' = 0
    /\ UNCHANGED <<term_docs_dict, ID, fstate, in_doc, in_text, new_doc,
                   lines_read, token_count, docs_built>>
    /\ UNCHANGED <<mergeVars, evalVars>>

\* One iteration of "for line in f": the chain of tests, each ending in
\* continue.
ReadLine(line) ==
    /\ fstate = "open"
    /\ lines_read' = lines_read + 1
    /\ IF startswith(line, START_DOC_TAG)
       THEN /\ in_doc' = TRUE
            /\ new_doc' = None
            /\ UNCHANGED <<in_text, ID, term_docs_dict, token_count>>
       ELSE IF in_doc /\ contains(line, START_DOCNO_TAG)
       THEN /\ new_doc' = Document(extract_doc_name(line), ID)
            /\ ID' = ID + 1
            /\ UNCHANGED <<in_doc, in_text, term_docs_dict, token_count>>
       ELSE IF in_doc /\ startswith(line, START_TEXT_TAG)
       THEN /\ in_text' = TRUE
            /\ UNCHANGED <<in_doc, new_doc, ID, term_docs_dict, token_count>>
       ELSE IF in_text /\ contains(line, END_TEXT_TAG)
       THEN /\ in_text' = FALSE
            /\ UNCHANGED <<in_doc, new_doc, ID, term_docs_dict, token_count>>
       ELSE IF in_text
       THEN /\ term_docs_dict' = process_text_line(term_docs_dict, line, new_doc)
            /\ token_count' = count_tokens(token_count, line, new_doc)
            /\ UNCHANGED <<in_doc, in_text, new_doc, ID>>
       ELSE IF startswith(line, END_DOC_TAG)
       THEN /\ in_doc' = FALSE
            /\ new_doc' = None
            /\ UNCHANGED <<in_text, ID, term_docs_dict, token_count>>
       ELSE UNCHANGED <<in_doc, in_text, new_doc, ID, term_docs_dict,
                        token_count>>
    /\ file_postings' = file_postings + count_postings(term_docs_dict')
                                      - count_postings(term_docs_dict)
    /\ docs_built' = docs_built + (ID' - ID)
    /\ file_docs' = file_docs + (ID' - ID)
    /\ UNCHANGED <<file_counter, fstate, parse_errors>>
    /\ UNCHANGED <<mergeVars, evalVars>>

\* Reading the next line raises (a decoding error, an I/O error): the
\* except clause prints and process_file returns.
ReadFails ==
    /\ fstate = "open"
    /\ fstate' = "idle"
    /\ parse_errors' = parse_errors + 1
    /\ UNCHANGED <<term_docs_dict, ID, file_counter, in_doc, in_text, new_doc,
                   lines_read, token_count, file_postings, docs_built,
                   file_docs>>
    /\ UNCHANGED <<mergeVars, evalVars>>

\* The file is exhausted: the loop ends and process_file returns.
CloseFile ==
    /\ fstate = "open"
    /\ fstate' = "idle"
    /\ UNCHANGED <<term_docs_dict, ID, file_counter, in_doc, in_text, new_doc,
                   lines_read, parse_errors, token_count, file_postings,
                   docs_built, file_docs>>
    /\ UNCHANGED <<mergeVars, evalVars>>

BuildNext ==
    \/ OpenFile /\ UNCHANGED harnessVars
    \/ OpenFails /\ UNCHANGED harnessVars
    \/ \E line \in Lines :
          lines_read < MaxLines /\ ReadLine(line) /\ UNCHANGED harnessVars
    \/ ReadFails /\ UNCHANGED harnessVars
    \/ CloseFile /\ UNCHANGED harnessVars

BuildSpec == BuildInit /\ [][BuildNext]_vars

----------------------------------------------------------------------------
(* LaterBuildSpec: a builder created in a process in which earlier         *)
(* builders have constructed Documents.  InvertedIndex.__init__ gives the  *)
(* new builder an empty index and file_counter 0; Document.ID is an        *)
(* attribute of the class Document and is left where the earlier builders  *)
(* took it.                                                                *)

LaterBuildInit ==
    /\ ID \in 0 .. MaxEarlierDocs
    /\ term_docs_dict = EmptyDict
    /\ file_counter = 0
    /\ fstate = "idle"
    /\ in_doc = FALSE
    /\ in_text = FALSE
    /\ new_doc = None
    /\ lines_read = 0
    /\ parse_errors = 0
    /\ token_count = <<>>
    /\ file_postings = 0
    /\ docs_built = 0
    /\ file_docs = 0
    /\ MergeParked
    /\ EvalParked
    /\ HarnessParked

LaterBuildSpec == LaterBuildInit /\ [][BuildNext]_vars

----------------------------------------------------------------------------
(* GoodBuildSpec: the builder reading well-formed files.  A well-formed    *)
(* file is a sequence of documents; a document is a <DOC> line, one        *)
(* <DOCNO> line, any number of text blocks and a </DOC> line; a text block *)
(* is a <TEXT> line, text lines that hold no tag, and a </TEXT> line.      *)

BadGrammar == [ok |-> FALSE, state |-> "Bad", docs |-> <<>>, terms |-> {}]

is_docno_line(line) ==
    /\ Len(line) = 3
    /\ line[1] = START_DOCNO_TAG
    /\ line[2] \notin Tags
    /\ line[3] = END_DOCNO_TAG

is_text_line(line) == \A i \in DOMAIN line : line[i] \notin Tags

\* The grammar reads one line.  docs are the raw names of the documents so
\* far, terms the pairs <<t, k>> where t is a whitespace token of a text
\* line of the k-th document.
GrammarStep(g, line) ==
    IF ~g.ok THEN BadGrammar
    ELSE IF g.state = "Outside" /\ line = <<START_DOC_TAG>>
    THEN [g EXCEPT !.state = "NeedDocno"]
    ELSE IF g.state = "NeedDocno" /\ is_docno_line(line)
    THEN [g EXCEPT !.state = "InDocument", !.docs = Append(@, line[2])]
    ELSE IF g.state = "InDocument" /\ line = <<START_TEXT_TAG>>
    THEN [g EXCEPT !.state = "InText"]
    ELSE IF g.state = "InDocument" /\ line = <<END_DOC_TAG>>
    THEN [g EXCEPT !.state = "Outside"]
    ELSE IF g.state = "InText" /\ line = <<END_TEXT_TAG>>
    THEN [g EXCEPT !.state = "InDocument"]
    ELSE IF g.state = "InText" /\ is_text_line(line)
    THEN [g EXCEPT !.terms =
              @ \cup {<<line[i], Len(g.docs)>> : i \in DOMAIN line}]
    ELSE BadGrammar

GoodBuildInit == BuildInit

\* populate opens the next file.
GoodOpenFile == OpenFile /\ UNCHANGED harnessVars

\* process_file reads a line that continues a well-formed file.
GoodReadLine(line) ==
    /\ lines_read < MaxGoodLines
    /\ grammar' = GrammarStep(grammar, line)
    /\ grammar'.ok
    /\ ReadLine(line)
    /\ UNCHANGED <<rebuildVars, batchVars>>

\* A well-formed file ends outside a document.
GoodCloseFile ==
    /\ grammar.state = "Outside"
    /\ CloseFile
    /\ UNCHANGED harnessVars

GoodBuildNext ==
    \/ GoodOpenFile
    \/ \E line \in Lines : GoodReadLine(line)
    \/ GoodCloseFile

GoodBuildSpec == GoodBuildInit /\ [][GoodBuildNext]_vars

----------------------------------------------------------------------------
(* RebuildSpec: one input built twice in one process, as the tests do: a   *)
(* first build, then Document.ID = 0 and a new InvertedIndex, then a       *)
(* second build that reads the files and lines the first build read.       *)

OpenEvent == [ev |-> "open", line |-> <<>>]
LineEvent(line) == [ev |-> "line", line |-> line]
CloseEvent == [ev |-> "close", line |-> <<>>]

RebuildInit == BuildInit

\* First build: populate opens the next file.
FirstOpenFile ==
    /\ run = 1
    /\ file_counter < MaxReplayFiles
    /\ OpenFile
    /\ input_log' = Append(input_log, OpenEvent)
    /\ UNCHANGED <<first_dict, run, replay_pos, goodVars, batchVars>>

\* First build: process_file reads a line.
FirstReadLine(line) ==
    /\ run = 1
    /\ lines_read < MaxReplayLines
    /\ ReadLine(line)
    /\ input_log' = Append(input_log, LineEvent(line))
    /\ UNCHANGED <<first_dict, run, replay_pos, goodVars, batchVars>>

\* First build: the file is exhausted.
FirstCloseFile ==
    /\ run = 1
    /\ CloseFile
    /\ input_log' = Append(input_log, CloseEvent)
    /\ UNCHANGED <<first_dict, run, replay_pos, goodVars, batchVars>>

\* A second InvertedIndex is created without Document.ID = 0: the counter
\* goes on from where the first build left it.
StartRebuildNoReset ==
    /\ run = 1
    /\ fstate = "idle"
    /\ first_dict' = term_docs_dict
    /\ run' = 2
    /\ term_docs_dict' = EmptyDict
    /\ file_counter' = 0
    /\ lines_read' = 0
    /\ parse_errors' = 0
    /\ token_count' = <<>>
    /\ file_postings' = 0
    /\ docs_built' = 0
    /\ file_docs' = 0
    /\ UNCHANGED <<ID, fstate, in_doc, in_text, new_doc>>
    /\ UNCHANGED <<input_log, replay_pos, goodVars, batchVars>>
    /\ UNCHANGED <<mergeVars, evalVars>>

\* The first build is over; Document.ID = 0 and InvertedIndex(data_path)
\* give a counter at 0 and a new empty index with file_counter 0.
StartRebuild ==
    /\ run = 1
    /\ fstate = "idle"
    /\ first_dict' = term_docs_dict
    /\ run' = 2
    /\ ID' = 0
    /\ term_docs_dict' = EmptyDict
    /\ file_counter' = 0
    /\ lines_read' = 0
    /\ parse_errors' = 0
    /\ token_count' = <<>>
    /\ file_postings' = 0
    /\ docs_built' = 0
    /\ file_docs' = 0
    /\ UNCHANGED <<fstate, in_doc, in_text, new_doc>>
    /\ UNCHANGED <<input_log, replay_pos, goodVars, batchVars>>
    /\ UNCHANGED <<mergeVars, evalVars>>

\* Second build: populate and process_file go through the same files and
\* lines in the same order.
Replay ==
    /\ run = 2
    /\ replay_pos < Len(input_log)
    /\ LET e == input_log[replay_pos + 1]
       IN  \/ e.ev = "open" /\ OpenFile
           \/ e.ev = "line" /\ ReadLine(e.line)
           \/ e.ev = "close" /\ CloseFile
    /\ replay_pos' = replay_pos + 1
    /\ UNCHANGED <<input_log, first_dict, run, goodVars, batchVars>>

RebuildNext ==
    \/ FirstOpenFile
    \/ \E line \in Lines : FirstReadLine(line)
    \/ FirstCloseFile
    \/ StartRebuild
    \/ Replay

RebuildSpec == RebuildInit /\ [][RebuildNext]_vars

----------------------------------------------------------------------------
(* BatchSpec: the batch loop of __main__ (boolean_retrieval.py): every     *)
(* query of the queries file is evaluated and one line is collected for    *)
(* it; the collected lines are then written to the output file in order.   *)

\* BooleanRetrieval.evaluate as a function of the dictionary and the
\* tokens, from token i on with the stack stk: the list returned, or the
\* ValueError raised.
RECURSIVE evaluate_from(_, _, _, _)
evaluate_from(index, toks, i, stk) ==
    IF i > Len(toks)
    THEN IF stack_has_result(stk)
         THEN [status |-> "returned", result |-> stk[1]]
         ELSE [status |-> "raised", result |-> PlainList(<<>>)]
    ELSE IF toks[i] \in operators
    THEN IF Len(stk) < 2
         THEN [status |-> "raised", result |-> PlainList(<<>>)]
         ELSE LET operand2 == stk[Len(stk)]
                  operand1 == stk[Len(stk) - 1]
                  call == apply_operator(toks[i], operand1, operand2)
              IN  evaluate_from(index, toks, i + 1,
                      Append(SubSeq(stk, 1, Len(stk) - 2), call.result))
    ELSE evaluate_from(index, toks, i + 1,
                       Append(stk, dict_get(index, toks[i])))

evaluate(index, toks) == evaluate_from(index, toks, 1, <<>>)

\* [doc.doc_id for doc in result_docs]
doc_ids(docs) == [i \in DOMAIN docs |-> docs[i].doc_id]

\* The queries of the file: blank lines are dropped on reading, so a query
\* has at least one token.
BatchQueries == UNION {[1 .. n -> Tokens] : n \in 1 .. MaxBatchTokens}

\* The dictionaries of the batch runs: both terms known, one term known,
\* no term known.
BatchIndexes ==
    {[t \in Terms |-> IF t = "T1" THEN PostingList(<<Doc(0), Doc(1)>>)
                      ELSE PostingList(<<Doc(1)>>)],
     [t \in {"T1"} |-> PostingList(<<Doc(0)>>)],
     EmptyDict}

BatchInit ==
    /\ inverted_index \in BatchIndexes
    /\ n_queries \in 0 .. MaxQueries
    /\ qi = 0
    /\ results = <<>>
    /\ query_errors = 0
    /\ tokens = <<>>
    /\ pos = 0
    /\ stack = <<>>
    /\ status = "running"
    /\ result = PlainList(<<>>)
    /\ error = NoError
    /\ lookups = <<>>
    /\ last_call = NoCall
    /\ grammar = GrammarStart
    /\ input_log = <<>>
    /\ first_dict = EmptyDict
    /\ run = 1
    /\ replay_pos = 0
    /\ MergeParked
    /\ BuildParked

\* The loop body without the try: a query that fails ends the run, no line
\* is collected for it or for the queries after it.
RunQueryAbort(q) ==
    /\ qi < n_queries
    /\ tokens' = q
    /\ LET r == evaluate(inverted_index, q)
       IN  IF r.status = "returned"
           THEN /\ results' = Append(results, Join(doc_ids(r.result.docs)))
                /\ qi' = qi + 1
                /\ UNCHANGED query_errors
           ELSE /\ qi' = n_queries
                /\ query_errors' = query_errors + 1
                /\ UNCHANGED results
    /\ UNCHANGED <<inverted_index, pos, stack, status, result, error, lookups,
                   last_call, n_queries>>
    /\ UNCHANGED <<mergeVars, buildVars, goodVars, rebuildVars>>

\* One iteration of the loop over the queries: the query is evaluated and
\* the raw names of the result, joined by spaces, are collected; when
\* anything raises, the except clause prints and collects an empty line.
RunQuery(q) ==
    /\ qi < n_queries
    /\ tokens' = q
    /\ qi' = qi + 1
    /\ LET r == evaluate(inverted_index, q)
       IN  IF r.status = "returned"
           THEN /\ results' = Append(results, Join(doc_ids(r.result.docs)))
                /\ UNCHANGED query_errors
           ELSE /\ results' = Append(results, "")
                /\ query_errors' = query_errors + 1
    /\ UNCHANGED <<inverted_index, pos, stack, status, result, error, lookups,
                   last_call, n_queries>>
    /\ UNCHANGED <<mergeVars, buildVars, goodVars, rebuildVars>>

BatchNext == \E q \in BatchQueries : RunQuery(q)

BatchSpec == BatchInit /\ [][BatchNext]_vars

----------------------------------------------------------------------------
(* Vocabulary of the properties.                                           *)

\* The sequence indices that occur in a document sequence.
IdxSet(docs) == {docs[i].doc_idx : i \in DOMAIN docs}

\* The sequence of sequence indices of a document sequence.
IdxSeq(docs) == [i \in DOMAIN docs |-> docs[i].doc_idx]

\* Strictly ascending by sequence index (hence without duplicates).
StrictlyAscending(docs) ==
    \A i, j \in DOMAIN docs : i < j => docs[i].doc_idx < docs[j].doc_idx

\* The elements of a document sequence.
Elems(docs) == {docs[i] : i \in DOMAIN docs}

\* The lists of the spec's example: A=[0,1,2,4], B=[1,2,3], C=[0,3,4].
FixA == SortedDocs({0, 1, 2, 4})
FixB == SortedDocs({1, 2, 3})
FixC == SortedDocs({0, 3, 4})

----------------------------------------------------------------------------
(* Properties of the merges, checked under MergeSpec.                      *)

\* C2: and_query(A, B) on strictly ascending A and B (empty ones included)
\* returns exactly the elements whose sequence index occurs in both lists,
\* each once, in ascending order; A=[0,1,2,4], B=[1,2,3] gives [1,2].
C2_AndIsIntersection ==
    "AND" \in ran =>
        /\ StrictlyAscending(and_res.docs)
        /\ IdxSet(and_res.docs) =
               IdxSet(term_1_list.docs) \cap IdxSet(term_2_list.docs)
        /\ Elems(and_res.docs) \subseteq Elems(term_1_list.docs)
        /\ (term_1_list.docs = FixA /\ term_2_list.docs = FixB
                => IdxSeq(and_res.docs) = <<1, 2>>)

C2_Witness ==
    /\ "AND" \in ran
    /\ term_1_list.docs = FixA
    /\ term_2_list.docs = FixB
    /\ IdxSeq(and_res.docs) = <<1, 2>>

\* C3: AND(A,B) and AND(B,A) are the same sequence (content and order),
\* so the AND dispatch of the evaluator, which passes the shorter operand
\* first, returns what and_query returns on the operands in push order.
C3_AndSymmetric ==
    "AND" \in ran =>
        /\ and_res = and_query(term_2_list, term_1_list)
        /\ apply_operator("AND", term_1_list, term_2_list).result = and_res
        /\ apply_operator("AND", term_2_list, term_1_list).result = and_res

\* The evaluator would swap these operands, and the intersection is not
\* empty and is neither of the two lists.
C3_Witness ==
    /\ "AND" \in ran
    /\ get_list_size(term_2_list) < get_list_size(term_1_list)
    /\ apply_operator("AND", term_1_list, term_2_list).arg1 = term_2_list
    /\ Len(and_res.docs) > 0
    /\ and_res.docs # term_1_list.docs
    /\ and_res.docs # term_2_list.docs

\* C4: or_query(A, B) on strictly ascending A and B (empty ones included)
\* returns every sequence index that occurs in A or in B exactly once, in
\* ascending order, and its size is |A| + |B| - |AND(A,B)|.
C4_OrIsUnion ==
    "OR" \in ran =>
        /\ StrictlyAscending(or_res.docs)
        /\ IdxSet(or_res.docs) =
               IdxSet(term_1_list.docs) \cup IdxSet(term_2_list.docs)
        /\ Elems(or_res.docs) \subseteq
               Elems(term_1_list.docs) \cup Elems(term_2_list.docs)
        /\ ("AND" \in ran =>
               Len(or_res.docs) = Len(term_1_list.docs)
                                  + Len(term_2_list.docs) - Len(and_res.docs))
        /\ (term_1_list.docs = FixA /\ term_2_list.docs = FixB
                => IdxSeq(or_res.docs) = <<0, 1, 2, 3, 4>>)

\* Both lists have an element the other lacks and they share one; each
\* list ends with a tail of its own in some such state (here the first).
C4_Witness ==
    /\ {"AND", "OR"} \subseteq ran
    /\ term_1_list.docs = FixA
    /\ term_2_list.docs = FixB
    /\ Len(and_res.docs) = 2
    /\ Len(or_res.docs) = 5

\* C5: and_not_query(A, B) returns exactly the elements of A whose
\* sequence index does not occur in B, in A's order: a copy of A when B is
\* empty, empty when A is empty; on the example lists AND_NOT(A,B)=[0,4],
\* AND_NOT(B,C)=[1,2], AND_NOT(C,A)=[3].
C5_AndNotIsDifference ==
    "NOT" \in ran =>
        /\ not_res.docs =
               SelectSeq(term_1_list.docs,
                         LAMBDA d : d.doc_idx \notin IdxSet(term_2_list.docs))
        /\ (term_2_list.docs = <<>> => not_res.docs = term_1_list.docs)
        /\ (term_1_list.docs = <<>> => not_res.docs = <<>>)
        /\ (term_1_list.docs = FixA /\ term_2_list.docs = FixB
                => IdxSeq(not_res.docs) = <<0, 4>>)
        /\ (term_1_list.docs = FixB /\ term_2_list.docs = FixC
                => IdxSeq(not_res.docs) = <<1, 2>>)
        /\ (term_1_list.docs = FixC /\ term_2_list.docs = FixA
                => IdxSeq(not_res.docs) = <<3>>)

\* The asymmetric example: AND_NOT(A,B) = [0,4] while AND_NOT(B,A) = [3].
C5_Witness ==
    /\ "NOT" \in ran
    /\ term_1_list.docs = FixA
    /\ term_2_list.docs = FixB
    /\ IdxSeq(not_res.docs) = <<0, 4>>
    /\ IdxSeq(and_not_query(term_2_list, term_1_list).docs) = <<3>>
    /\ not_res # and_not_query(term_2_list, term_1_list)

\* C6: partition law: the sequence indices of AND_NOT(A,B) and those of
\* AND(A,B) are disjoint and together are the sequence indices of A.
C6_Partition ==
    {"AND", "NOT"} \subseteq ran =>
        /\ IdxSet(not_res.docs) \cup IdxSet(and_res.docs)
               = IdxSet(term_1_list.docs)
        /\ IdxSet(not_res.docs) \cap IdxSet(and_res.docs) = {}

\* Both parts are non-empty, and A ends with elements beyond the end of B.
C6_Witness ==
    /\ {"AND", "NOT"} \subseteq ran
    /\ IdxSeq(term_1_list.docs) = <<0, 1, 2, 4>>
    /\ IdxSeq(term_2_list.docs) = <<1, 2, 3>>
    /\ IdxSeq(and_res.docs) = <<1, 2>>
    /\ IdxSeq(not_res.docs) = <<0, 4>>

----------------------------------------------------------------------------
(* Properties of evaluate, checked under Spec.                             *)

\* The number of term tokens, and of operator tokens, among the first n.
NumTerms(toks, n) == Cardinality({i \in 1 .. n : toks[i] \notin operators})
NumOps(toks, n) == Cardinality({i \in 1 .. n : toks[i] \in operators})

\* What a postfix expression leaves on its stack after n tokens, when no
\* operator before that lacked an operand: each term adds one item, each
\* operator replaces two by one.
DepthAfter(toks, n) == NumTerms(toks, n) - NumOps(toks, n)

\* The positions of the operators that meet fewer than two items.
Underflows(toks) ==
    {k \in 1 .. Len(toks) :
        /\ toks[k] \in operators
        /\ DepthAfter(toks, k - 1) < 2
        /\ \A j \in 1 .. k - 1 :
               toks[j] \in operators => DepthAfter(toks, j - 1) >= 2}

\* A well-formed postfix expression: every operator finds two operands and
\* one value is left at the end.
WellFormed(toks) ==
    /\ \A k \in 1 .. Len(toks) :
           toks[k] \in operators => DepthAfter(toks, k - 1) >= 2
    /\ DepthAfter(toks, Len(toks)) = 1

\* The set of sequence indices a term denotes in the index: those of its
\* posting list, none when the term is unknown.
TermSet(index, term) ==
    IF term \in DOMAIN index THEN IdxSet(index[term].docs) ELSE {}

\* The stack of sets a well-formed prefix of a postfix expression denotes:
\* AND is intersection, OR is union, NOT is the earlier operand minus the
\* later one.
RECURSIVE SetStack(_, _)
SetStack(index, toks) ==
    IF toks = <<>> THEN <<>>
    ELSE LET before == SetStack(index, SubSeq(toks, 1, Len(toks) - 1))
             t == toks[Len(toks)]
             n == Len(before)
         IN  IF t \notin operators
             THEN Append(before, TermSet(index, t))
             ELSE Append(SubSeq(before, 1, n - 2),
                         IF t = "AND" THEN before[n - 1] \cap before[n]
                         ELSE IF t = "OR" THEN before[n - 1] \cup before[n]
                         ELSE before[n - 1] \ before[n])

\* C1: for an index with strictly ascending posting lists and a well-formed
\* RPN query, evaluate returns (never raises) the list the postfix
\* expression denotes, ascending by sequence index: terms stand for their
\* posting lists (empty when unknown), AND is intersection, OR is union,
\* X Y NOT is X minus Y.
C1_EvaluateDenotation ==
    (status # "running" /\ WellFormed(tokens)) =>
        /\ status = "returned"
        /\ StrictlyAscending(result.docs)
        /\ result.docs = SortedDocs(SetStack(inverted_index, tokens)[1])

\* A nested query whose operators are not all the same returned a
\* non-empty list that is not the posting list of a term.
C1_Witness ==
    /\ status = "returned"
    /\ Len(tokens) = 5
    /\ tokens[3] = "NOT"
    /\ tokens[5] = "OR"
    /\ Len(result.docs) > 0
    /\ \A t \in DOMAIN inverted_index : inverted_index[t].docs # result.docs

\* C7: an operator token met with fewer than two items on the stack makes
\* evaluate raise at once, naming that operator: the scan never passes the
\* operator, the terms looked up are exactly the term tokens before it,
\* and nothing changes after the error.
C7_UnderflowRaises ==
    /\ [](\A k \in Underflows(tokens) :
            /\ pos <= k - 1
            /\ status # "returned"
            /\ lookups = SelectSeq(SubSeq(tokens, 1, pos),
                                   LAMBDA t : t \notin operators)
            /\ Len(lookups) <= NumTerms(tokens, k - 1)
            /\ (status = "raised" =>
                    /\ pos = k - 1
                    /\ error = [msg |-> "not enough operands for operator",
                                op |-> tokens[k]]))
    /\ [][\A k \in Underflows(tokens) :
            (status = "running" /\ pos = k - 1) =>
                (status' = "raised" /\ lookups' = lookups /\ stack' = stack)]_vars
    /\ [][status = "raised" => UNCHANGED vars]_vars

\* The query "AND T1 ...": raised on the first token, term tokens follow
\* the operator and none was looked up.
C7_Witness ==
    /\ status = "raised"
    /\ Len(tokens) >= 2
    /\ tokens[1] = "AND"
    /\ tokens[2] = "T1"
    /\ error.op = "AND"
    /\ pos = 0
    /\ lookups = <<>>

\* C8: evaluate returns only when all tokens are consumed and the stack
\* holds exactly one element, which it returns; with an empty stack (empty
\* query) or operands left over it raises the malformed-query error.
C8_FinalStackCheck ==
    /\ (status = "returned" =>
            /\ pos = Len(tokens)
            /\ Len(stack) = 1
            /\ DepthAfter(tokens, Len(tokens)) = 1
            /\ result = stack[1])
    /\ ((status # "running" /\ Underflows(tokens) = {}
          /\ DepthAfter(tokens, Len(tokens)) # 1) =>
            /\ status = "raised"
            /\ pos = Len(tokens)
            /\ Len(stack) = DepthAfter(tokens, Len(tokens))
            /\ error = [msg |-> "stack does not contain exactly one result",
                        op |-> "none"])

\* Operands are left over after an operator was applied: two elements.
C8_Witness ==
    /\ status = "raised"
    /\ pos = Len(tokens)
    /\ Len(tokens) = 4
    /\ tokens[3] = "AND"
    /\ Len(stack) = 2
    /\ error.msg = "stack does not contain exactly one result"

----------------------------------------------------------------------------
(* Properties of the index builder, checked under BuildSpec.               *)

\* An entry of a posting list that is a Document (not the None that a
\* text line met before any document-number line leaves behind).
IsDocument(d) == d # None

\* C9: after any sequence of lines of any sequence of files every posting
\* list of the index is sorted ascending by sequence index: of any two
\* documents of a list the earlier one has the smaller or equal index.
\* No step of the builder sorts.
C9_PostingListsSorted ==
    \A t \in DOMAIN term_docs_dict :
        LET docs == term_docs_dict[t].docs
        IN  \A i, j \in DOMAIN docs :
                (i < j /\ IsDocument(docs[i]) /\ IsDocument(docs[j]))
                    => docs[i].doc_idx <= docs[j].doc_idx

\* Two files were read and a posting list holds the documents of both.
C9_Witness ==
    /\ file_counter = 2
    /\ parse_errors = 0
    /\ ID = 2
    /\ "a" \in DOMAIN term_docs_dict
    /\ IdxSeq(term_docs_dict["a"].docs) = <<0, 1>>

\* C10: a document appears at most once in the posting list of a term,
\* however often and on however many lines the term is repeated in the
\* document's text.
C10_NoDuplicatePostings ==
    \A t \in DOMAIN term_docs_dict :
        LET docs == term_docs_dict[t].docs
        IN  \A i, j \in DOMAIN docs :
                (i # j /\ IsDocument(docs[i]) /\ IsDocument(docs[j]))
                    => DocNe(docs[i], docs[j])

\* The term was met twice or more for the second document of its list,
\* and also for the first.
C10_Witness ==
    /\ "a" \in DOMAIN term_docs_dict
    /\ IdxSeq(term_docs_dict["a"].docs) = <<0, 1>>
    /\ <<"a", 0>> \in DOMAIN token_count
    /\ <<"a", 1>> \in DOMAIN token_count
    /\ token_count[<<"a", 0>>] = 2
    /\ token_count[<<"a", 1>>] = 2

\* The <<term, document>> pairs an index holds.
IndexPairs(dict) ==
    UNION {{<<t, dict[t].docs[i]>> : i \in DOMAIN dict[t].docs} :
               t \in DOMAIN dict}

\* The pairs the input holds: the k-th document of the input is the
\* Document with its raw name and the sequence index k - 1.
InputPairs(g) ==
    {<<p[1], Document(g.docs[p[2]], p[2] - 1)>> : p \in g.terms}

\* C11: on well-formed input a document is in the posting list of a term
\* exactly when the term is a whitespace token of one of the document's
\* text lines, and the keys of the index are exactly the terms that occur
\* in some text line.
C11_IndexIsTermOccurrence ==
    /\ IndexPairs(term_docs_dict) = InputPairs(grammar)
    /\ DOMAIN term_docs_dict = {p[1] : p \in grammar.terms}

\* Two well-formed files were read to the end, one document each: "a"
\* occurs in both documents, "b" in the second only.
C11_Witness ==
    /\ fstate = "idle"
    /\ file_counter = 2
    /\ grammar.ok
    /\ grammar.state = "Outside"
    /\ Len(grammar.docs) = 2
    /\ grammar.terms = {<<"a", 1>>, <<"a", 2>>, <<"b", 2>>}
    /\ IdxSeq(term_docs_dict["a"].docs) = <<0, 1>>
    /\ IdxSeq(term_docs_dict["b"].docs) = <<1>>

\* C12: evaluate treats the index as read-only: no step of an evaluation,
\* one that returns or one that raises, changes the set of keys (looking
\* up an unknown term adds no key) or the posting list of any key, the
\* lists handed to the merges included.
C12_IndexReadOnly ==
    [][/\ DOMAIN inverted_index' = DOMAIN inverted_index
       /\ \A t \in DOMAIN inverted_index :
              inverted_index'[t] = inverted_index[t]]_vars

\* An evaluation that raised after it looked up an unknown term and a
\* merge was called on a non-empty posting list of the index.
C12_Witness ==
    /\ status = "raised"
    /\ \E i \in DOMAIN lookups : lookups[i] \notin DOMAIN inverted_index
    /\ last_call.fn # "none"
    /\ \E t \in DOMAIN inverted_index :
           /\ inverted_index[t].docs # <<>>
           /\ last_call.arg1 = inverted_index[t] \/ last_call.arg2 = inverted_index[t]

\* The next token is a term that is not a key of the index.
AtUnknownTerm ==
    /\ status = "running"
    /\ pos < Len(tokens)
    /\ tokens[pos + 1] \notin operators
    /\ tokens[pos + 1] \notin DOMAIN inverted_index

\* The query is "X U op" with U not a key of the index.
UnknownSecondOperand ==
    /\ Len(tokens) = 3
    /\ tokens[1] \notin operators
    /\ tokens[2] \notin operators
    /\ tokens[2] \notin DOMAIN inverted_index
    /\ tokens[3] \in operators

\* C13: a term that is not in the index is no error: its lookup pushes an
\* empty list and the evaluation goes on, and evaluate raises only the two
\* malformed-query errors.  For an unknown U, "X U AND" returns the empty
\* list and "X U OR" and "X U NOT" return the documents of X.
C13_UnknownTermIsEmpty ==
    /\ [][AtUnknownTerm =>
             /\ status' = "running"
             /\ stack' = Append(stack, PlainList(<<>>))]_vars
    /\ [](status = "raised" =>
             error.msg \in {"not enough operands for operator",
                            "stack does not contain exactly one result"})
    /\ []((UnknownSecondOperand /\ status # "running") =>
             /\ status = "returned"
             /\ result.docs =
                    IF tokens[3] = "AND" THEN <<>>
                    ELSE dict_get(inverted_index, tokens[1]).docs)

\* "X U NOT" with U unknown returned the two documents of X.
C13_Witness ==
    /\ UnknownSecondOperand
    /\ tokens[3] = "NOT"
    /\ tokens[1] \in DOMAIN inverted_index
    /\ Len(inverted_index[tokens[1]].docs) = 2
    /\ status = "returned"
    /\ result.docs = inverted_index[tokens[1]].docs

\* The second build has read all the input of the first.
RebuildDone == run = 2 /\ replay_pos = Len(input_log)

EvaluateAgrees ==
    status # "running" =>
        /\ evaluate(inverted_index, tokens).status = status
        /\ evaluate(inverted_index, tokens).result = result

\* The output line of a query by what the query denotes: the raw names of
\* the documents of the denoted set in ascending order, joined by spaces;
\* the empty line for a query that is not a well-formed postfix expression.
ExpectedLine(index, toks) ==
    IF WellFormed(toks)
    THEN Join(doc_ids(SortedDocs(SetStack(index, toks)[1])))
    ELSE ""

\* C15: the batch run collects exactly one output line per query, in query
\* order: every iteration appends one line, the result of its query or
\* the empty line when the query failed, and moves on to the next query;
\* while queries are left the loop can go on, whatever failed before.
C15_OneLinePerQuery ==
    /\ [](Len(results) = qi /\ qi <= n_queries)
    /\ [](qi < n_queries => ENABLED BatchNext)
    /\ [][/\ qi' = qi + 1
          /\ results' = Append(results, ExpectedLine(inverted_index, tokens'))
          /\ (~WellFormed(tokens')) => query_errors' = query_errors + 1]_vars

\* The first of two queries failed, its line is empty, and the second
\* query was evaluated and gave a line with two documents.
C15_Witness ==
    /\ n_queries = 2
    /\ qi = 2
    /\ query_errors = 1
    /\ results = <<"", "AP-001 AP-002">>
    /\ WellFormed(tokens)

\* C16: when processing a file fails, at open or at any line, the index
\* holds no posting that comes from the failing file, the builder is back
\* between files, and a following file can still be opened.
C16_FailedFileLeavesNoPosting ==
    /\ [][parse_errors' = parse_errors + 1 =>
             /\ file_postings' = 0
             /\ fstate' = "idle"]_vars
    /\ []((fstate = "idle" /\ file_counter < MaxFiles) => ENABLED OpenFile)

\* C17: a line that starts with the document-close tag, met inside a
\* document or inside a text block, leaves the parser outside any document
\* with no pending Document, and is not tokenized.
C17_DocCloseReturnsOutside ==
    [][\A line \in Lines :
          (startswith(line, END_DOC_TAG) /\ (in_doc \/ in_text)
              /\ ReadLine(line)) =>
              /\ ~in_doc'
              /\ ~in_text'
              /\ new_doc' = None
              /\ term_docs_dict' = term_docs_dict]_vars

\* C18: a line that starts with the document-open tag, met in any state,
\* leaves the parser inside a document and not inside a text block, with
\* no pending Document.
C18_DocOpenEntersInDocument ==
    [][\A line \in Lines :
          (startswith(line, START_DOC_TAG) /\ ReadLine(line)) =>
              /\ in_doc'
              /\ ~in_text'
              /\ new_doc' = None]_vars

\* C19: a Document is constructed, and the counter incremented, only by a
\* line with the document-number tag met inside a document and outside a
\* text block.
C19_DocumentOnlyInDocument ==
    [][(ID' # ID \/ (new_doc' # new_doc /\ new_doc' # None)) =>
          /\ in_doc
          /\ ~in_text
          /\ \E line \in Lines :
                 contains(line, START_DOCNO_TAG) /\ ReadLine(line)]_vars

\* C20: every entry of every posting list is a Document, never None, and
\* every key of the index has a non-empty posting list.
C20_NoNoneNoEmptyList ==
    \A t \in DOMAIN term_docs_dict :
        /\ term_docs_dict[t].docs # <<>>
        /\ \A i \in DOMAIN term_docs_dict[t].docs :
               IsDocument(term_docs_dict[t].docs[i])

\* C21: the k-th Document constructed for a builder gets the sequence
\* index k - 1, also when builders that ran earlier in the process have
\* constructed Documents: each construction takes the number of Documents
\* the builder has constructed so far and moves the counter on by one.
C21_KthDocumentGetsIndex ==
    [][ID' # ID =>
          /\ new_doc'.doc_idx = docs_built
          /\ docs_built' = docs_built + 1
          /\ ID' = ID + 1]_vars

\* The sequence a is a prefix of the sequence b.
IsPrefix(a, b) == Len(a) <= Len(b) /\ SubSeq(b, 1, Len(a)) = a

\* C22: the index only grows during a build: every step of the builder
\* keeps every key, and the posting list of every key before the step is
\* a prefix of its posting list after the step.
C22_IndexOnlyGrows ==
    [][/\ DOMAIN term_docs_dict \subseteq DOMAIN term_docs_dict'
       /\ \A t \in DOMAIN term_docs_dict :
              IsPrefix(term_docs_dict[t].docs, term_docs_dict'[t].docs)]_vars

\* A posting list that got a second document after its first, in an
\* index that got a second key by the line that added the document.
C22_Witness ==
    /\ DOMAIN term_docs_dict = {"a", "b"}
    /\ IdxSeq(term_docs_dict["a"].docs) = <<0, 1>>
    /\ IdxSeq(term_docs_dict["b"].docs) = <<1>>
    /\ file_postings = 3

\* The maintained count of a PostingList is the number of its elements,
\* the size read through the count is that number, and get_last_doc gives
\* the last element of a non-empty list and None for an empty one.
CountIsLength(pl) ==
    /\ pl.freq = Len(pl.docs)
    /\ get_list_size(pl) = Len(pl.docs)
    /\ get_last_doc(pl) =
           IF pl.docs # <<>> THEN pl.docs[Len(pl.docs)] ELSE None

\* C23: for every posting list, after construction from any initial
\* sequence and after any sequence of appends, the maintained count
\* equals the number of elements, so the size read through the count is
\* the true length and get_last_doc returns the last element exactly when
\* the list is non-empty.
C23_FreqIsLength ==
    /\ \A docs \in AscendingSeqs(QueryDocs) : CountIsLength(PostingList(docs))
    /\ \A t \in DOMAIN term_docs_dict : CountIsLength(term_docs_dict[t])

\* The builder appended two documents to one posting list and one to
\* another.
C23_Witness ==
    /\ DOMAIN term_docs_dict = {"a", "b"}
    /\ term_docs_dict["a"].freq = 2
    /\ term_docs_dict["b"].freq = 1
    /\ Len(term_docs_dict["a"].docs) = 2
    /\ get_last_doc(term_docs_dict["a"]).doc_idx = 1

\* The next token is an operator and the stack holds its two operands.
AtOperator ==
    /\ status = "running"
    /\ pos < Len(tokens)
    /\ tokens[pos + 1] \in operators
    /\ Len(stack) >= 2

\* C24: for AND the evaluator calls and_query on the two operands with the
\* shorter list first: the first argument is never longer than the second,
\* whichever operand was pushed first.  For OR and NOT it calls or_query
\* and and_not_query with the operands in push order.
C24_AndShorterFirst ==
    [][AtOperator =>
          LET operand1 == stack[Len(stack) - 1]
              operand2 == stack[Len(stack)]
              call == last_call'
          IN  IF tokens[pos + 1] = "AND"
              THEN /\ call.fn = "and_query"
                   /\ Len(call.arg1.docs) <= Len(call.arg2.docs)
                   /\ \/ call.arg1 = operand1 /\ call.arg2 = operand2
                      \/ call.arg1 = operand2 /\ call.arg2 = operand1
              ELSE /\ call.fn = IF tokens[pos + 1] = "OR"
                                THEN "or_query" ELSE "and_not_query"
                   /\ call.arg1 = operand1
                   /\ call.arg2 = operand2]_vars

\* "X Y AND" where the list of X is longer than the list of Y: and_query
\* was called with the list of Y first.
C24_Witness ==
    /\ status = "returned"
    /\ Len(tokens) = 3
    /\ tokens[3] = "AND"
    /\ tokens[1] \in DOMAIN inverted_index
    /\ tokens[2] \in DOMAIN inverted_index
    /\ Len(inverted_index[tokens[1]].docs) = 2
    /\ Len(inverted_index[tokens[2]].docs) = 1
    /\ last_call.fn = "and_query"
    /\ last_call.arg1 = inverted_index[tokens[2]]
    /\ last_call.arg2 = inverted_index[tokens[1]]

\* The entries a step added to the posting lists of the index.
AddedEntries ==
    UNION {{term_docs_dict'[t].docs[i] :
               i \in (IF t \in DOMAIN term_docs_dict
                      THEN Len(term_docs_dict[t].docs) ELSE 0) + 1
                     .. Len(term_docs_dict'[t].docs)} :
           t \in DOMAIN term_docs_dict'}

\* C25: the parser state does not carry over between files: whatever
\* state the previous file ended in, the processing of a file starts
\* outside any document with no pending Document, and no line of the file
\* is indexed under a Document constructed before the file was opened.
C25_ParserStartsOutside ==
    /\ [][(fstate = "idle" /\ fstate' = "open") =>
             /\ ~in_doc'
             /\ ~in_text'
             /\ new_doc' = None]_vars
    /\ [][\A d \in AddedEntries :
             IsDocument(d) => d.doc_idx \in ID' - file_docs' .. ID' - 1]_vars

\* The first file failed inside an unclosed text block of its document,
\* and the second file has been opened.
C25_Witness ==
    /\ file_counter = 2
    /\ fstate = "open"
    /\ parse_errors = 1
    /\ lines_read = 4
    /\ ID = 1
    /\ DOMAIN term_docs_dict = {"a"}
    /\ term_docs_dict["a"].docs = <<Document("AP-1", 0)>>
    /\ ~in_doc
    /\ ~in_text
    /\ new_doc = None
====
